---- MODULE Spec2Model ----
(***************************************************************************)
(* A model of src/src/lisp.cpp: the parser (class parser) and the          *)
(* evaluator (class interpreter) of a minimal Lisp.                        *)
(*                                                                         *)
(* Text is a sequence of one-character strings.  A double is modelled as   *)
(* a sign, and a magnitude n/d in lowest terms; d = 0 stands for the IEEE  *)
(* special values (n = 1: infinity, n = 0: NaN).  Finite arithmetic is     *)
(* exact: binary rounding is not modelled.                                 *)
(***************************************************************************)
EXTENDS Integers, Sequences, FiniteSets, TLC

VARIABLES input, index, from, pres, globalEnv, expr, result, pc

vars == <<input, index, from, pres, globalEnv, expr, result, pc>>

----------------------------------------------------------------------------
(* Bounds of the model.                                                    *)

\* Every text of at most MaxLen characters over Alphabet is an input.
MaxLen == 4

\* Every tree of at most MaxSize nodes over Leaves is rendered to an input.
MaxSize == 4

\* Every arithmetic tree of at most MaxArith nodes is rendered to an input.
MaxArith == 6

----------------------------------------------------------------------------
(* Characters: <cctype> isspace and isdigit in the "C" locale.             *)

NUL == "NUL"

IsSpace(c) == c \in {" ", "\t", "\n", "\r", "\f"}

DigitChars == <<"0", "1", "2", "3", "4", "5", "6", "7", "8", "9">>

IsDigit(c) == \E k \in 1..10 : DigitChars[k] = c

DigitVal(c) == (CHOOSE k \in 1..10 : DigitChars[k] = c) - 1

----------------------------------------------------------------------------
(* double                                                                  *)

RECURSIVE Gcd(_, _)
Gcd(a, b) == IF b = 0 THEN a ELSE Gcd(b, a % b)

\* The double of sign s (1 or -1) and magnitude n/d, d > 0.
Dbl(s, n, d) ==
    LET g == Gcd(n, d) IN [s |-> s, n |-> n \div g, d |-> d \div g]

Inf(s) == [s |-> s, n |-> 1, d |-> 0]

NaN == [s |-> 1, n |-> 0, d |-> 0]

IsNaN(x) == x.d = 0 /\ x.n = 0

IsInf(x) == x.d = 0 /\ x.n = 1

IsFinite(x) == x.d # 0

IsZero(x) == x.d # 0 /\ x.n = 0

DZero == Dbl(1, 0, 1)

DOne == Dbl(1, 1, 1)

DNeg(x) == IF IsNaN(x) THEN x ELSE [x EXCEPT !.s = -x.s]

\* x + y (round to nearest: an exact zero sum is +0 unless both are -0).
DAdd(x, y) ==
    IF IsNaN(x) \/ IsNaN(y) THEN NaN
    ELSE IF IsInf(x) /\ IsInf(y) THEN (IF x.s = y.s THEN x ELSE NaN)
    ELSE IF IsInf(x) THEN x
    ELSE IF IsInf(y) THEN y
    ELSE LET num == x.s * x.n * y.d + y.s * y.n * x.d
             den == x.d * y.d
         IN  IF num > 0 THEN Dbl(1, num, den)
             ELSE IF num < 0 THEN Dbl(-1, -num, den)
             ELSE IF x.s = -1 /\ y.s = -1 THEN Dbl(-1, 0, 1)
             ELSE Dbl(1, 0, 1)

DSub(x, y) == DAdd(x, DNeg(y))

DMul(x, y) ==
    IF IsNaN(x) \/ IsNaN(y) THEN NaN
    ELSE IF (IsInf(x) /\ IsZero(y)) \/ (IsZero(x) /\ IsInf(y)) THEN NaN
    ELSE IF IsInf(x) \/ IsInf(y) THEN Inf(x.s * y.s)
    ELSE Dbl(x.s * y.s, x.n * y.n, x.d * y.d)

DDiv(x, y) ==
    IF IsNaN(x) \/ IsNaN(y) THEN NaN
    ELSE IF IsInf(x) /\ IsInf(y) THEN NaN
    ELSE IF IsZero(x) /\ IsZero(y) THEN NaN
    ELSE IF IsInf(x) \/ IsZero(y) THEN Inf(x.s * y.s)
    ELSE IF IsInf(y) THEN Dbl(x.s * y.s, 0, 1)
    ELSE Dbl(x.s * y.s, x.n * y.d, x.d * y.n)

----------------------------------------------------------------------------
(* lisp_object and its three subclasses; Null is the empty shared_ptr.     *)

Null == [t |-> "null", value |-> DZero, name |-> <<>>, elements |-> <<>>]

lisp_number(val) ==
    [t |-> "number", value |-> val, name |-> <<>>, elements |-> <<>>]

lisp_symbol(name) ==
    [t |-> "symbol", value |-> DZero, name |-> name, elements |-> <<>>]

lisp_list(elems) ==
    [t |-> "list", value |-> DZero, name |-> <<>>, elements |-> elems]

----------------------------------------------------------------------------
(* The outcome of a call: a returned value or a thrown exception.          *)

UnexpectedEndOfInput == "Unexpected end of input"

InvalidArgument == "stod: invalid_argument"

UnknownOperatorError == "Unknown operator"

Returned(node, i) == [kind |-> "ok", node |-> node, idx |-> i, err |-> ""]

Thrown(e, i) == [kind |-> "throw", node |-> Null, idx |-> i, err |-> e]

NotCalled == [kind |-> "none", node |-> Null, idx |-> 0, err |-> ""]

----------------------------------------------------------------------------
(* class parser                                                            *)

\* input[index]; std::string yields the terminating '\0' at index = length.
currentChar(s, i) == IF i < Len(s) THEN s[i + 1] ELSE NUL

RECURSIVE skipWhitespace(_, _)
skipWhitespace(s, i) ==
    IF i < Len(s) /\ IsSpace(currentChar(s, i))
    THEN skipWhitespace(s, i + 1)
    ELSE i

\* The loop that collects the characters of a number.
RECURSIVE ScanNumber(_, _, _)
ScanNumber(s, i, number) ==
    IF i < Len(s) /\ (IsDigit(currentChar(s, i)) \/ currentChar(s, i) = ".")
    THEN ScanNumber(s, i + 1, Append(number, currentChar(s, i)))
    ELSE [lexeme |-> number, idx |-> i]

\* The loop that collects the characters of a symbol.
RECURSIVE ScanSymbol(_, _, _)
ScanSymbol(s, i, symbol) ==
    IF i < Len(s) /\ ~IsSpace(currentChar(s, i)) /\ currentChar(s, i) # ")"
    THEN ScanSymbol(s, i + 1, Append(symbol, currentChar(s, i)))
    ELSE [lexeme |-> symbol, idx |-> i]

\* The length of the run of digits that starts at position k (1-based) of str.
RECURSIVE DigitRun(_, _)
DigitRun(str, k) ==
    IF k <= Len(str) /\ IsDigit(str[k]) THEN 1 + DigitRun(str, k + 1) ELSE 0

\* The natural number written by the digits str[k .. k+n-1].
RECURSIVE DigitsValue(_, _, _)
DigitsValue(str, k, n) ==
    IF n = 0 THEN 0
    ELSE 10 * DigitsValue(str, k, n - 1) + DigitVal(str[k + n - 1])

RECURSIVE Pow10(_)
Pow10(n) == IF n = 0 THEN 1 ELSE 10 * Pow10(n - 1)

\* std::stod fails (std::invalid_argument) when no conversion can be made.
StodFails(str) == DigitRun(str, 1) = 0

\* std::stod on a text of digits and points that starts with a digit: the
\* longest prefix  digits [ "." digits ]  is converted, the rest is ignored.
stod(str) ==
    LET ni == DigitRun(str, 1)
        nf == IF ni < Len(str) /\ str[ni + 1] = "."
              THEN DigitRun(str, ni + 2) ELSE 0
    IN  Dbl(1, DigitsValue(str, 1, ni) * Pow10(nf) + DigitsValue(str, ni + 2, nf),
            Pow10(nf))

\* The test of the number branch: a digit, or '-' followed by a digit.
StartsNumber(s, i) ==
    \/ IsDigit(currentChar(s, i))
    \/ /\ currentChar(s, i) = "-"
       /\ i + 1 < Len(s)
       /\ IsDigit(s[i + 2])

RECURSIVE parse(_, _)
RECURSIVE ParseElements(_, _, _)

\* parser::parse() called with the cursor at i0.
parse(s, i0) ==
    LET i == skipWhitespace(s, i0) IN
    IF i >= Len(s) THEN Thrown(UnexpectedEndOfInput, i)
    ELSE IF currentChar(s, i) = "(" THEN ParseElements(s, i + 1, <<>>)
    ELSE IF StartsNumber(s, i) THEN
        LET sc == ScanNumber(s, i, <<>>) IN
        IF StodFails(sc.lexeme) THEN Thrown(InvalidArgument, sc.idx)
        ELSE Returned(lisp_number(stod(sc.lexeme)), sc.idx)
    ELSE
        LET sc == ScanSymbol(s, i, <<>>) IN
        Returned(lisp_symbol(sc.lexeme), sc.idx)

\* The loop of the list branch, the cursor at i and elements read so far.
ParseElements(s, i, elements) ==
    IF currentChar(s, i) # ")" THEN
        LET r == parse(s, i) IN
        IF r.kind # "ok" THEN r
        ELSE ParseElements(s, skipWhitespace(s, r.idx), Append(elements, r.node))
    ELSE Returned(lisp_list(elements), i + 1)

----------------------------------------------------------------------------
(* class interpreter                                                       *)

OperatorNames == {<<"+">>, <<"-">>, <<"*">>, <<"/">>}

\* globalEnv as the constructor leaves it: each operator name bound to a
\* symbol of that name.
InitialEnv == [name \in OperatorNames |-> lisp_symbol(name)]

\* The outcome of a call of eval: a returned pointer, a thrown exception, or
\* undefined behaviour (a null pointer dereferenced, a vector read out of
\* bounds); env is globalEnv as the call leaves it.
EvReturned(node, env) == [kind |-> "ok", node |-> node, err |-> "", env |-> env]

EvThrown(e, env) == [kind |-> "throw", node |-> Null, err |-> e, env |-> env]

EvUndefined(env) == [kind |-> "undefined", node |-> Null, err |-> "", env |-> env]

\* globalEnv[name]: std::map::operator[] inserts an empty pointer under a
\* name that has no entry, and returns the entry.
Lookup(name, env) ==
    IF name \in DOMAIN env THEN EvReturned(env[name], env)
    ELSE EvReturned(Null, [n \in DOMAIN env \cup {name} |->
                              IF n = name THEN Null ELSE env[n]])

Combine(op, acc, x) ==
    CASE op = "+" -> DAdd(acc, x)
      [] op = "-" -> DSub(acc, x)
      [] op = "*" -> DMul(acc, x)
      [] op = "/" -> DDiv(acc, x)

RECURSIVE eval(_, _)
RECURSIVE Reduce(_, _, _, _, _)

\* The loop of an arithmetic reduction from args[k] on (1-based):
\*   acc op= dynamic_cast<lisp_number*>(eval(arg).get())->getValue();
\* the cast of anything but a number is null, and is dereferenced.
Reduce(op, args, k, acc, env) ==
    IF k > Len(args) THEN EvReturned(lisp_number(acc), env)
    ELSE LET r == eval(args[k], env) IN
         IF r.kind # "ok" THEN r
         ELSE IF r.node.t # "number" THEN EvUndefined(r.env)
         ELSE Reduce(op, args, k + 1, Combine(op, acc, r.node.value), r.env)

\* The first statement of evalSubtract and evalDivide:
\*   double result = dynamic_cast<lisp_number*>(eval(args[0]).get())->getValue();
\* then the loop from args[1] on.  args[0] of an empty vector is out of bounds.
ReduceFromFirst(op, args, env) ==
    IF args = <<>> THEN EvUndefined(env)
    ELSE LET r == eval(args[1], env) IN
         IF r.kind # "ok" THEN r
         ELSE IF r.node.t # "number" THEN EvUndefined(r.env)
         ELSE Reduce(op, args, 2, r.node.value, r.env)

evalAdd(args, env) == Reduce("+", args, 1, DZero, env)

\* evalSubtract written like evalAdd: the fold starts from 0, not from args[0].
evalSubtractFromZero(args, env) == Reduce("-", args, 1, DZero, env)

evalSubtract(args, env) == ReduceFromFirst("-", args, env)

evalMultiply(args, env) == Reduce("*", args, 1, DOne, env)

evalDivide(args, env) == ReduceFromFirst("/", args, env)

\* The list branch of eval, elements not empty: operatorSymbol is the cast of
\* elements[0] to a symbol, null for a number or a list, and is dereferenced.
Dispatch(elements, env) ==
    LET head == elements[1]
        args == Tail(elements)
    IN  IF head.t # "symbol" THEN EvUndefined(env)
        ELSE IF head.name = <<"+">> THEN evalAdd(args, env)
        ELSE IF head.name = <<"-">> THEN evalSubtract(args, env)
        ELSE IF head.name = <<"*">> THEN evalMultiply(args, env)
        ELSE IF head.name = <<"/">> THEN evalDivide(args, env)
        ELSE EvThrown(UnknownOperatorError, env)

\* interpreter::eval(e) with globalEnv = env, e not null.
eval(e, env) ==
    IF e.t = "number" THEN EvReturned(e, env)
    ELSE IF e.t = "symbol" THEN Lookup(e.name, env)
    ELSE IF e.elements = <<>> THEN EvReturned(Null, env)
    ELSE Dispatch(e.elements, env)

----------------------------------------------------------------------------
(* The inputs: every short text over Alphabet, the rendering of every      *)
(* small tree over Leaves, and some longer expressions.                    *)

Alphabet == {"(", ")", " ", "-", "1", ".", "a"}

Texts == UNION {[1..k -> Alphabet] : k \in 0..MaxLen}

Nat2 == lisp_number(Dbl(1, 2, 1))

Leaves ==
    {lisp_number(DZero), Nat2, lisp_symbol(<<"a">>)}
        \cup {lisp_symbol(name) : name \in OperatorNames}

RECURSIVE TreesOfSize(_)
RECURSIVE ForestsOfSize(_)

\* The sequences of trees with n nodes in all.
ForestsOfSize(n) ==
    IF n = 0 THEN {<<>>}
    ELSE UNION {{<<t>> \o f : t \in TreesOfSize(k), f \in ForestsOfSize(n - k)} :
                   k \in 1..n}

\* The trees with n nodes: a leaf, or a list of the trees of a forest.
TreesOfSize(n) ==
    (IF n = 1 THEN Leaves ELSE {})
        \cup {lisp_list(f) : f \in ForestsOfSize(n - 1)}

\* The text of a tree whose numbers are the naturals below 10.
RECURSIVE Render(_)
RECURSIVE RenderAll(_)
Render(e) ==
    IF e.t = "number" THEN <<DigitChars[e.value.n + 1]>>
    ELSE IF e.t = "symbol" THEN e.name
    ELSE <<"(">> \o RenderAll(e.elements) \o <<")">>

RenderAll(elems) ==
    IF elems = <<>> THEN <<>>
    ELSE IF Len(elems) = 1 THEN Render(elems[1])
    ELSE Render(elems[1]) \o <<" ">> \o RenderAll(Tail(elems))

TreeTexts == {Render(e) : e \in UNION {TreesOfSize(n) : n \in 1..MaxSize}}

NumberLeaves == {lisp_number(Dbl(1, k, 1)) : k \in {0, 2, 5}}

RECURSIVE ArithOfSize(_)
RECURSIVE ArithForestsOfSize(_)

ArithForestsOfSize(n) ==
    IF n = 0 THEN {<<>>}
    ELSE UNION {{<<t>> \o f : t \in ArithOfSize(k), f \in ArithForestsOfSize(n - k)} :
                   k \in 1..n}

\* The trees with n nodes that are a number, or a list of an operator name
\* and arithmetic trees.
ArithOfSize(n) ==
    IF n = 1 THEN NumberLeaves
    ELSE {lisp_list(<<lisp_symbol(name)>> \o f) :
             name \in OperatorNames, f \in ArithForestsOfSize(n - 2)}

ArithTexts == {Render(e) : e \in UNION {ArithOfSize(n) : n \in 1..MaxArith}}

Samples == {
    <<"(", "+", " ", "1", " ", "2", " ", "(", "*", " ", "3", " ", "4", ")", ")">>,
    <<"(", "-", " ", "1", "0", " ", "3", " ", "2", ")">>,
    <<"(", "-", " ", "7", ")">>,
    <<"(", "/", " ", "8", " ", "0", ")">>,
    <<"(", "/", " ", "8", " ", "2", " ", "0", " ", "4", ")">>,
    <<"(", "/", " ", "9", " ", "3", " ", "2", ")">>,
    <<"(", "f", "o", "o", " ", "1", " ", "2", ")">>,
    <<"(", "+", " ", "1", " ", "2">>,
    <<"(", "+", " ", "1", " ", "2", " ">>,
    <<"(", "+", " ", "1", " ", "(", "*", " ", "2", " ", "3", ")">>,
    <<"(", "+", " ", "1", ".", "5", " ", "(", "-", " ", "0", ".", "2", "5", " ", "2", ")", ")">>,
    <<"(", "-", " ", "(", "*", " ", "2", " ", "(", "+", " ", "1", " ", "2", ")", ")",
      " ", "(", "/", " ", "1", " ", "4", ")", ")">>,
    <<"(", "/", " ", "1", " ", "(", "-", " ", "2", " ", "2", ")", ")">>,
    <<"(", "*", " ", "2", " ", "-", "3", ")">>,
    <<" ", "-", "1", "2", ".", "5", " ", "x">>,
    <<"f", "o", "o", " ", "+", " ", "b", "a", "r">>,
    <<"(", "a", "(", "b", ")">>,
    <<"(", "*", " ", "0", " ", "(", "-", " ", "0", " ", "2", ")", ")">>,
    <<"(", "/", " ", "1", " ", "(", "*", " ", "0", " ", "(", "-", " ", "0", " ", "2", ")", ")", ")">>
}

Inputs == Texts \cup TreeTexts \cup ArithTexts \cup Samples

----------------------------------------------------------------------------
(* The state: a parser (input, index) and an interpreter (globalEnv) of    *)
(* the process, and what the last call of parse() and of eval() did.       *)
(*   from    index as the last call of parse() found it                    *)
(*   pres    the outcome of the last call of parse()                       *)
(*   expr    the argument of the last call of eval()                       *)
(*   result  the outcome of the last call of eval()                        *)
(*   pc      "run", or "crashed" once the process has been killed          *)

NoResult == [kind |-> "none", node |-> Null, err |-> ""]

\* What may come of undefined behaviour in eval: the process is killed by
\* the invalid read, or runs on and eval hands back whatever was read.
UndefinedOutcomes == {
    [kind |-> "crash", node |-> Null, err |-> ""],
    [kind |-> "ok", node |-> Null, err |-> ""],
    [kind |-> "ok", node |-> lisp_number(DZero), err |-> ""]
}

Init ==
    /\ input \in Inputs
    /\ index = 0
    /\ from = 0
    /\ pres = NotCalled
    /\ globalEnv = InitialEnv
    /\ expr = Null
    /\ result = NoResult
    /\ pc = "run"

\* parser.parse()
Parse ==
    /\ pc = "run"
    /\ LET r == parse(input, index) IN
        /\ pres' = r
        /\ index' = r.idx
        /\ from' = index
    /\ UNCHANGED <<input, globalEnv, expr, result, pc>>

\* interpreter.eval(e), e the expression parse() returned last.
Evaluate ==
    /\ pc = "run"
    /\ pres.kind = "ok"
    /\ LET r == eval(pres.node, globalEnv) IN
        /\ expr' = pres.node
        /\ globalEnv' = r.env
        /\ IF r.kind = "undefined"
           THEN \E o \in UndefinedOutcomes :
                    /\ result' = o
                    /\ pc' = IF o.kind = "crash" THEN "crashed" ELSE pc
           ELSE /\ result' = [kind |-> r.kind, node |-> r.node, err |-> r.err]
                /\ pc' = pc
    /\ UNCHANGED <<input, index, from, pres>>

Next == Parse \/ Evaluate

Spec == Init /\ [][Next]_vars

----------------------------------------------------------------------------
(* The error kinds of the specification.  parse() and eval() throw          *)
(* UnexpectedEndOfInput and UnknownOperatorError; nothing in the source     *)
(* throws the other four.                                                   *)

UnboundSymbol == "UnboundSymbol"

TypeMismatch == "TypeMismatch"

ArityError == "ArityError"

DivisionByZero == "DivisionByZero"

Evaluated == result.kind # "none"

Parsed == pres.kind # "none"

Fails(e) == result.kind = "throw" /\ result.err = e

----------------------------------------------------------------------------
(* The reference value of an arithmetic expression, in exact rationals      *)
(* <<p, q>>, q > 0, not reduced.                                            *)

RefAdd(a, b) == <<a[1] * b[2] + b[1] * a[2], a[2] * b[2]>>

RefSub(a, b) == <<a[1] * b[2] - b[1] * a[2], a[2] * b[2]>>

RefMul(a, b) == <<a[1] * b[1], a[2] * b[2]>>

RefDiv(a, b) ==
    IF b[1] > 0 THEN <<a[1] * b[2], a[2] * b[1]>>
    ELSE <<-(a[1] * b[2]), -(a[2] * b[1])>>

RefApply(name, a, b) ==
    CASE name = <<"+">> -> RefAdd(a, b)
      [] name = <<"-">> -> RefSub(a, b)
      [] name = <<"*">> -> RefMul(a, b)
      [] name = <<"/">> -> RefDiv(a, b)

RECURSIVE RefValue(_)
RECURSIVE RefFold(_, _, _)

\* The left fold of the operator over the values of operands, from acc.
RefFold(name, acc, operands) ==
    IF operands = <<>> THEN acc
    ELSE RefFold(name, RefApply(name, acc, RefValue(Head(operands))), Tail(operands))

RefValue(e) ==
    IF e.t = "number" THEN <<e.value.s * e.value.n, e.value.d>>
    ELSE LET name == e.elements[1].name
             operands == Tail(e.elements)
         IN  IF name = <<"+">> THEN RefFold(name, <<0, 1>>, operands)
             ELSE IF name = <<"*">> THEN RefFold(name, <<1, 1>>, operands)
             ELSE RefFold(name, RefValue(Head(operands)), Tail(operands))

\* Number leaves and lists headed by + - * /, at least one operand for - and
\* /, and no divisor of value zero.
RECURSIVE WellFormed(_)
WellFormed(e) ==
    \/ e.t = "number" /\ IsFinite(e.value)
    \/ /\ e.t = "list"
       /\ e.elements # <<>>
       /\ e.elements[1].t = "symbol"
       /\ e.elements[1].name \in OperatorNames
       /\ \A k \in 2..Len(e.elements) : WellFormed(e.elements[k])
       /\ e.elements[1].name \in {<<"-">>, <<"/">>} => Len(e.elements) >= 2
       /\ e.elements[1].name = <<"/">> =>
              \A k \in 3..Len(e.elements) : RefValue(e.elements[k])[1] # 0

\* The double x is the rational r.
NumEq(x, r) == IsFinite(x) /\ x.s * x.n * r[2] = r[1] * x.d

ReturnsNumber(r) ==
    /\ result.kind = "ok"
    /\ result.node.t = "number"
    /\ NumEq(result.node.value, r)

Num(k) == lisp_number(Dbl(1, k, 1))

Sym(c) == lisp_symbol(<<c>>)

\* (+ 1 2 (* 3 4)),  (- 10 3 2),  (- 7)
Example1 == lisp_list(<<Sym("+"), Num(1), Num(2), lisp_list(<<Sym("*"), Num(3), Num(4)>>)>>)

Example2 == lisp_list(<<Sym("-"), Num(10), Num(3), Num(2)>>)

Example3 == lisp_list(<<Sym("-"), Num(7)>>)

EvaluatesToReference == (Evaluated /\ WellFormed(expr)) => ReturnsNumber(RefValue(expr))

\* C1, as stated: evaluating an expression of Number leaves and lists headed
\* by + - * / (an operand for - and /, no zero divisor) returns the Number of
\* the reference value (+ the sum, * the product, - and / left folds from the
\* first operand); (+ 1 2 (* 3 4)) gives 14, (- 10 3 2) gives 5, (- 7) gives 7.
C1_AsStated ==
    /\ EvaluatesToReference
    /\ (Evaluated /\ expr = Example1) => ReturnsNumber(<<14, 1>>)
    /\ (Evaluated /\ expr = Example2) => ReturnsNumber(<<5, 1>>)
    /\ (Evaluated /\ expr = Example3) => ReturnsNumber(<<7, 1>>)

\* C1, amended: the same, and (+ 1 2 (* 3 4)) gives 15 (1 + 2 + 3 * 4).
C1_EvaluatesArithmetic ==
    /\ EvaluatesToReference
    /\ (Evaluated /\ expr = Example1) => ReturnsNumber(<<15, 1>>)
    /\ (Evaluated /\ expr = Example2) => ReturnsNumber(<<5, 1>>)
    /\ (Evaluated /\ expr = Example3) => ReturnsNumber(<<7, 1>>)

\* A - or / of several operands, one of them a list, has been evaluated.
C1_Witness ==
    /\ Evaluated
    /\ WellFormed(expr)
    /\ expr.t = "list"
    /\ expr.elements[1].name \in {<<"-">>, <<"/">>}
    /\ Len(expr.elements) >= 3
    /\ \E k \in 2..Len(expr.elements) : expr.elements[k].t = "list"
    /\ result.node.value.d > 1

----------------------------------------------------------------------------
(* The reader's lexemes, as the specification defines them.                 *)

\* The position after the digits that start at position i (0-based) of s.
RECURSIVE AfterDigits(_, _)
AfterDigits(s, i) ==
    IF i < Len(s) /\ IsDigit(s[i + 1]) THEN AfterDigits(s, i + 1) ELSE i

\* The position after the number lexeme whose first digit is at i: the
\* maximal run of digits, and a fractional point with its digits.
NumberEnd(s, i) ==
    LET k == AfterDigits(s, i) IN
    IF k < Len(s) /\ s[k + 1] = "." THEN AfterDigits(s, k + 1) ELSE k

\* The text s[i .. j-1], positions 0-based.
Slice(s, i, j) == SubSeq(s, i + 1, j)

\* Where the last call of parse() found its first non-blank character.
TokenStart == skipWhitespace(input, from)

\* C2: when the next non-blank character at the cursor is '-' followed by a
\* digit, the reader returns a Number holding the negative value of the
\* lexeme, and leaves the cursor one past the lexeme's last character.
C2_NegativeNumberLiteral ==
    (/\ Parsed
     /\ TokenStart + 1 < Len(input)
     /\ input[TokenStart + 1] = "-"
     /\ IsDigit(input[TokenStart + 2]))
    => LET end == NumberEnd(input, TokenStart + 1) IN
       /\ pres.kind = "ok"
       /\ pres.node.t = "number"
       /\ pres.node.value = DNeg(stod(Slice(input, TokenStart + 1, end)))
       /\ index = end

\* C3: evaluating a Symbol whose name is none of + - * / fails with
\* UnboundSymbol, and never returns an empty value.
C3_UnboundSymbolFails ==
    (Evaluated /\ expr.t = "symbol" /\ expr.name \notin OperatorNames)
    => Fails(UnboundSymbol)

\* C4: evaluating a non-empty List whose leading element is not one of the
\* symbols + - * / (another symbol, a Number, a List) fails with
\* UnknownOperator, and nothing else can come of it.
C4_UnknownOperatorFails ==
    (/\ Evaluated
     /\ expr.t = "list"
     /\ expr.elements # <<>>
     /\ ~(expr.elements[1].t = "symbol" /\ expr.elements[1].name \in OperatorNames))
    => Fails(UnknownOperatorError)

\* C5: (+) evaluates to Number 0 and (*) to Number 1, and (-) and (/) fail
\* with ArityError.
C5_ZeroOperands ==
    /\ (Evaluated /\ expr = lisp_list(<<Sym("+")>>)) => ReturnsNumber(<<0, 1>>)
    /\ (Evaluated /\ expr = lisp_list(<<Sym("*")>>)) => ReturnsNumber(<<1, 1>>)
    /\ (Evaluated /\ expr \in {lisp_list(<<Sym("-")>>), lisp_list(<<Sym("/")>>)})
           => Fails(ArityError)

\* The operands of expr, a list headed by an operator name.
Operands == Tail(expr.elements)

HeadedBy(names) ==
    /\ expr.t = "list"
    /\ expr.elements # <<>>
    /\ expr.elements[1].t = "symbol"
    /\ expr.elements[1].name \in names

\* C6: evaluating a / form in which an operand after the first evaluates to
\* exactly 0 fails with DivisionByZero, and never returns a Number.
C6_DivisionByZeroFails ==
    (/\ Evaluated
     /\ HeadedBy({<<"/">>})
     /\ \A k \in 1..Len(Operands) : WellFormed(Operands[k])
     /\ \E k \in 2..Len(Operands) : RefValue(Operands[k])[1] = 0)
    => Fails(DivisionByZero)

\* An expression that evaluates to something that is not a Number: an empty
\* List (no value), or a Symbol (an operator symbol, or nothing).
NotNumeric(e) == e.t = "symbol" \/ (e.t = "list" /\ e.elements = <<>>)

\* C7: for each of the four operators, if an operand evaluates to something
\* that is not a Number, evaluation fails with TypeMismatch.
C7_TypeMismatchFails ==
    (/\ Evaluated
     /\ HeadedBy(OperatorNames)
     /\ \E k \in 1..Len(Operands) :
            /\ NotNumeric(Operands[k])
            /\ \A j \in 1..(k - 1) : WellFormed(Operands[j]))
    => Fails(TypeMismatch)

\* Whether the list opened at position i (0-based) of s is closed, open the
\* number of lists open after s[i].
RECURSIVE Closed(_, _, _)
Closed(s, i, open) ==
    IF i >= Len(s) THEN FALSE
    ELSE IF s[i + 1] = "(" THEN Closed(s, i + 1, open + 1)
    ELSE IF s[i + 1] = ")" THEN (open = 1 \/ Closed(s, i + 1, open - 1))
    ELSE Closed(s, i + 1, open)

\* C8: reading a list whose input is exhausted before the matching ')' fails
\* with UnexpectedEndOfInput: no List is returned, and the cursor does not
\* pass the end of the buffer.
C8_UnterminatedListFails ==
    (/\ Parsed
     /\ TokenStart < Len(input)
     /\ input[TokenStart + 1] = "("
     /\ ~Closed(input, TokenStart, 0))
    => /\ pres.kind = "throw"
       /\ pres.err = UnexpectedEndOfInput
       /\ index <= Len(input)

\* The name of every Symbol of e is not empty, and holds no blank and no
\* parenthesis.
RECURSIVE SymbolsNamed(_)
SymbolsNamed(e) ==
    /\ e.t = "symbol" =>
           /\ e.name # <<>>
           /\ \A k \in 1..Len(e.name) :
                  ~IsSpace(e.name[k]) /\ e.name[k] \notin {"(", ")"}
    /\ \A k \in 1..Len(e.elements) : SymbolsNamed(e.elements[k])

\* C9: every Symbol the reader produces has a name that is not empty and
\* holds no blank, no '(' and no ')'; "( )" yields the empty List.
C9_SymbolNames ==
    /\ pres.kind = "ok" => SymbolsNamed(pres.node)
    /\ (pres.kind = "ok" /\ input = <<"(", " ", ")">>) => pres.node = lisp_list(<<>>)

\* C10: after any sequence of calls of eval, the registry holds exactly the
\* four entries installed at construction.
C10_RegistryReadOnly == globalEnv = InitialEnv

====
